---- MODULE Spec2Model ----
(***************************************************************************)
(* Model of VPSMemoryOrchestrator (src/src/orchestration.ts): hierarchical *)
(* sessions with TTL, the agent registry, the 3-tier conflict resolver and *)
(* the pattern store, together with the audit sink (VPSMemoryClient        *)
(* storeMemory) they write to.                                             *)
(*                                                                         *)
(* Time is the wall clock in milliseconds (Date.now()).  A timestamp that  *)
(* the code keeps as an ISO string (createdAt, resolvedAt) is kept as the  *)
(* millisecond value it parses back to.  The fields the code writes and    *)
(* never reads (lastAccess, lastActivity, description, memoryContext,      *)
(* metadata) are not part of the state.                                    *)
(* Session, conflict and pattern ids are generated by the code from the    *)
(* clock and Math.random; the model numbers them 1, 2, ... in creation     *)
(* order, which is also the iteration order of the JavaScript Map.         *)
(***************************************************************************)
EXTENDS Integers, Sequences, FiniteSets, TLC

VARIABLES
    clock,            \* Date.now(), in ms
    sessions,         \* this.sessions: sequence of session records (index = id)
    sessionHierarchy, \* this.coordination.sessionHierarchy: set of session ids
    agents,           \* this.agents: function agent id -> agent record
    conflicts,        \* this.conflicts: sequence of conflict records (index = id)
    activeConflicts,  \* coordination.conflictResolution.activeConflicts: seq of ids
    patterns,         \* this.patterns: sequence of pattern records (index = id)
    patternsLearned,  \* globalPatterns.performanceMetrics.patternsLearned
    patternsApplied,  \* globalPatterns.performanceMetrics.patternsApplied
    auditLog,         \* records the audit sink has accepted (storeMemory resolved)
    sweep,            \* the cleanupExpiredSessions call in flight, if any
    reported,         \* history: outcome reports received per agent id
    executions,       \* history: per pattern, the executions attempted and succeeded
    calls,            \* the calls suspended at an await, each with its locals
    lastCall          \* the last operation, its arguments and what it returned

vars == <<clock, sessions, sessionHierarchy, agents, conflicts, activeConflicts,
          patterns, patternsLearned, patternsApplied, auditLog, sweep, reported,
          executions, calls, lastCall>>

sessionVars == <<sessions, sessionHierarchy, sweep>>
agentVars == <<agents, reported>>
conflictVars == <<conflicts, activeConflicts>>
patternVars == <<patterns, patternsLearned, patternsApplied, executions>>

----------------------------------------------------------------------------
\* Bounds of the model.

MaxSessions == 2
MaxTicks == 2
MaxAudit == 2
MaxReports == 4
MaxConflicts == 2
MaxPatterns == 2
MaxUsage == 2
MaxCalls == 2

\* The clock advances in steps of ClockStep ms.
ClockStep == 1000

\* options.ttl || 3600
DefaultTtl == 3600

\* "no parentSessionId given" and an id that names no stored session.
NoParent == 0
UnknownId == -1

Roles == {"orchestrator", "specialist", "coordinator", "validator"}

AgentIdInputs == {"a1", "a2"}
AgentRoleInputs == {"specialist", "coordinator"}
SpecializationInputs == {<<>>, <<"db">>}

ConflictTypes == {"memory_conflict", "session_conflict", "agent_conflict",
                  "pattern_conflict"}
Severities == {"low", "medium", "high", "critical"}
SeverityInputs == {"low", "critical"}
ItemInputs == {<<"x1">>, <<"x1", "x2">>}
NoTime == -1

PatternTypes == {"workflow", "resolution", "optimization", "prediction"}
PatternTypeInputs == {"workflow", "resolution"}
ConditionInputs == {[k \in {"op"} |-> "search"]}
ContextInputs == {[k \in {"op"} |-> "search"], [k \in {"op"} |-> "store"]}
ActionInputs == {[k \in {"strategy"} |-> "cache"]}
ContextListInputs == {<<"search">>}

SessionRoleInputs == {"specialist"}
TtlInputs == {1}

StateInputs == {[k \in {"a"} |-> 1], [k \in {"b"} |-> 2], [k \in {"a"} |-> 3]}

----------------------------------------------------------------------------
\* Sessions.

SessionIds == 1..Len(sessions)

\* { ...parentContext.state, ...session.state }
SpreadMerge(parentState, state) ==
    [k \in DOMAIN parentState \cup DOMAIN state |->
        IF k \in DOMAIN state THEN state[k] ELSE parentState[k]]

\* Mutant of Expired: a session counts as expired from the instant its age
\* equals its TTL.
ExpiredAtTtl(session, now) == now - session.createdAt >= session.ttl * 1000

\* sessionAge > session.ttl * 1000
Expired(session, now) == now - session.createdAt > session.ttl * 1000

\* The audit sink (storeMemory) accepts a bounded number of records and
\* fails every call after that.
SinkAccepts == Len(auditLog) < MaxAudit

\* flipped is history: the number of sessions whose isActive the call has
\* changed from true to false.
SweepIdle == [pc |-> "idle", now |-> 0, pos |-> 0, count |-> 0, flipped |-> 0]

Init ==
    /\ clock = 0
    /\ sessions = <<>>
    /\ sessionHierarchy = {}
    /\ agents = [a \in {} |-> 0]
    /\ conflicts = <<>>
    /\ activeConflicts = <<>>
    /\ patterns = <<>>
    /\ patternsLearned = 0
    /\ patternsApplied = 0
    /\ executions = <<>>
    /\ calls = <<>>
    /\ auditLog = <<>>
    /\ sweep = SweepIdle
    /\ reported = [a \in AgentIdInputs |-> [total |-> 0, successes |-> 0]]
    /\ lastCall = [op |-> "init"]

\* Time passes between operations.
Tick ==
    /\ clock < MaxTicks * ClockStep
    /\ clock' = clock + ClockStep
    /\ lastCall' = [op |-> "tick"]
    /\ UNCHANGED <<sessionVars, calls, agentVars, conflictVars, patternVars, auditLog>>

\* options.parentSessionId ?
\*   (this.sessions.get(options.parentSessionId)?.hierarchyLevel || 0) + 1 : 0
hierarchyLevelFor(S, parentSessionId) ==
    IF parentSessionId # NoParent
    THEN (IF parentSessionId \in 1..Len(S)
          THEN S[parentSessionId].hierarchyLevel ELSE 0) + 1
    ELSE 0

\* Mutant of addToParent: the new session is stored without being linked to
\* its parent.
addToParentSkipped(S, parentSessionId, sessionId) == S

\* Mutant of addToParent: linking a child also marks the parent active again.
addToParentReviving(S, parentSessionId, sessionId) ==
    IF parentSessionId # NoParent /\ parentSessionId \in 1..Len(S)
    THEN [S EXCEPT ![parentSessionId].childSessions = Append(@, sessionId),
                   ![parentSessionId].isActive = TRUE]
    ELSE S

\* Mutant of addToParent: the child's id is pushed twice.
addToParentTwice(S, parentSessionId, sessionId) ==
    IF parentSessionId # NoParent /\ parentSessionId \in 1..Len(S)
    THEN [S EXCEPT ![parentSessionId].childSessions =
                       Append(Append(@, sessionId), sessionId)]
    ELSE S

\* "Add to parent's children if applicable"
addToParent(S, parentSessionId, sessionId) ==
    IF parentSessionId # NoParent /\ parentSessionId \in 1..Len(S)
    THEN [S EXCEPT ![parentSessionId].childSessions = Append(@, sessionId)]
    ELSE S

\* createSession(agentRole, {parentSessionId, initialState, ttl}); auditOk is
\* whether the storeMemory call at the end resolves or throws.
CreateSession(agentRole, parentSessionId, initialState, ttl, auditOk) ==
    LET sessionId == Len(sessions) + 1
        hierarchyLevel == hierarchyLevelFor(sessions, parentSessionId)
        session == [parentSessionId |-> parentSessionId,
                    hierarchyLevel |-> hierarchyLevel,
                    agentRole |-> agentRole,
                    state |-> initialState,
                    createdAt |-> clock,
                    ttl |-> IF ttl = 0 THEN DefaultTtl ELSE ttl,
                    isActive |-> TRUE,
                    childSessions |-> <<>>]
        withChild == addToParent(sessions, parentSessionId, sessionId)
    IN  /\ Len(sessions) < MaxSessions
        /\ auditOk => SinkAccepts
        /\ sessions' = Append(withChild, session)
        /\ sessionHierarchy' = sessionHierarchy \cup {sessionId}
        /\ auditLog' = IF auditOk
                       THEN Append(auditLog, [category |-> "session_context",
                                              event |-> "created",
                                              id |-> sessionId])
                       ELSE auditLog
        /\ lastCall' = [op |-> "createSession",
                        parentSessionId |-> parentSessionId,
                        threw |-> ~auditOk,
                        sessionId |-> sessionId]
        /\ UNCHANGED <<clock, sweep, calls, agentVars, conflictVars, patternVars>>

\* getSessionContext(sessionId, includeHierarchy) on store S at time now:
\* the store after the call, whether a session is returned (null otherwise)
\* and the ids whose TTL the call has compared with the clock.
RECURSIVE getSessionContext(_, _, _, _)
getSessionContext(S, sessionId, includeHierarchy, now) ==
    IF sessionId \notin 1..Len(S)
    THEN [store |-> S, found |-> FALSE, checked |-> {}]
    ELSE IF Expired(S[sessionId], now)
    THEN [store |-> [S EXCEPT ![sessionId].isActive = FALSE],
          found |-> TRUE, checked |-> {sessionId}]
    ELSE IF includeHierarchy /\ S[sessionId].parentSessionId # NoParent
    THEN LET parentId == S[sessionId].parentSessionId
             parentContext == getSessionContext(S, parentId, TRUE, now)
         IN  IF parentContext.found
             THEN [store |-> [parentContext.store EXCEPT ![sessionId].state =
                                 SpreadMerge(parentContext.store[parentId].state, @)],
                   found |-> TRUE,
                   checked |-> parentContext.checked \cup {sessionId}]
             ELSE [store |-> S, found |-> TRUE, checked |-> {sessionId}]
    ELSE [store |-> S, found |-> TRUE, checked |-> {sessionId}]

\* Mutant of GetSession: a session the sweep has taken out of the hierarchy
\* index is reported as not found.
GetSessionHidingSwept(sessionId, includeHierarchy) ==
    LET r == getSessionContext(sessions, sessionId, includeHierarchy, clock)
        hidden == sessionId \notin sessionHierarchy
    IN  /\ sessions' = r.store
        /\ lastCall' = [op |-> "getSessionContext",
                        sessionId |-> sessionId,
                        includeHierarchy |-> includeHierarchy,
                        checked |-> r.checked,
                        now |-> clock,
                        result |-> IF r.found /\ ~hidden
                                   THEN <<r.store[sessionId]>> ELSE <<>>]
        /\ UNCHANGED <<clock, sessionHierarchy, sweep, auditLog,
                       calls, agentVars, conflictVars, patternVars>>

\* Mutant of GetSession: a read of a stored session writes an audit record.
GetSessionAudited(sessionId, includeHierarchy) ==
    LET r == getSessionContext(sessions, sessionId, includeHierarchy, clock)
    IN  /\ sessions' = r.store
        /\ auditLog' = IF r.found /\ SinkAccepts
                       THEN Append(auditLog, [category |-> "session_context",
                                              event |-> "read",
                                              id |-> sessionId])
                       ELSE auditLog
        /\ lastCall' = [op |-> "getSessionContext",
                        sessionId |-> sessionId,
                        includeHierarchy |-> includeHierarchy,
                        checked |-> r.checked,
                        now |-> clock,
                        result |-> IF r.found THEN <<r.store[sessionId]>> ELSE <<>>]
        /\ UNCHANGED <<clock, sessionHierarchy, sweep,
                       calls, agentVars, conflictVars, patternVars>>

GetSession(sessionId, includeHierarchy) ==
    LET r == getSessionContext(sessions, sessionId, includeHierarchy, clock)
    IN  /\ sessions' = r.store
        /\ lastCall' = [op |-> "getSessionContext",
                        sessionId |-> sessionId,
                        includeHierarchy |-> includeHierarchy,
                        checked |-> r.checked,
                        now |-> clock,
                        result |-> IF r.found THEN <<r.store[sessionId]>> ELSE <<>>]
        /\ UNCHANGED <<clock, sessionHierarchy, sweep, auditLog,
                       calls, agentVars, conflictVars, patternVars>>

\* The for-loop of cleanupExpiredSessions from entry `from` of the session
\* map up to its next await: it runs on to the first expired session, marks
\* it, and stops there (pos) for the audit write; pos = 0 when the loop ended.
RECURSIVE cleanupScan(_, _, _, _)
cleanupScan(S, H, from, now) ==
    IF from > Len(S)
    THEN [store |-> S, hierarchy |-> H, pos |-> 0, checked |-> {}]
    ELSE IF Expired(S[from], now)
    THEN [store |-> [S EXCEPT ![from].isActive = FALSE],
          hierarchy |-> H \ {from}, pos |-> from, checked |-> {from}]
    ELSE LET rest == cleanupScan(S, H, from + 1, now)
         IN  [rest EXCEPT !.checked = @ \cup {from}]

CleanupAudit(sessionId) ==
    [category |-> "session_context", event |-> "cleanup", id |-> sessionId]

\* cleanupExpiredSessions() is entered (by the 5-minute timer or a caller)
\* and runs to its first await, or to its return when nothing has expired.
CleanupStart ==
    LET r == cleanupScan(sessions, sessionHierarchy, 1, clock)
    IN  /\ sweep.pc = "idle"
        /\ sessions' = r.store
        /\ sessionHierarchy' = r.hierarchy
        /\ sweep' = IF r.pos = 0 THEN SweepIdle
                    ELSE [pc |-> "audit", now |-> clock, pos |-> r.pos, count |-> 0,
                          flipped |-> IF sessions[r.pos].isActive THEN 1 ELSE 0]
        /\ lastCall' = [op |-> "cleanupExpiredSessions", done |-> r.pos = 0,
                        threw |-> FALSE, cleanedCount |-> 0,
                        checked |-> r.checked, now |-> clock]
        /\ UNCHANGED <<clock, auditLog, calls, agentVars, conflictVars, patternVars>>

\* The storeMemory call the sweep awaits settles: when it throws the sweep
\* ends there; otherwise the session is counted and the loop goes on.
CleanupResume(auditOk) ==
    LET r == cleanupScan(sessions, sessionHierarchy, sweep.pos + 1, sweep.now)
    IN  /\ sweep.pc = "audit"
        /\ auditOk => SinkAccepts
        /\ IF auditOk
           THEN /\ auditLog' = Append(auditLog, CleanupAudit(sweep.pos))
                /\ sessions' = r.store
                /\ sessionHierarchy' = r.hierarchy
                /\ sweep' = IF r.pos = 0 THEN SweepIdle
                            ELSE [sweep EXCEPT
                                    !.pos = r.pos, !.count = @ + 1,
                                    !.flipped = @ + (IF sessions[r.pos].isActive
                                                     THEN 1 ELSE 0)]
                /\ lastCall' = [op |-> "cleanupExpiredSessions", done |-> r.pos = 0,
                                threw |-> FALSE, cleanedCount |-> sweep.count + 1,
                                checked |-> r.checked, now |-> sweep.now]
           ELSE /\ sweep' = SweepIdle
                /\ lastCall' = [op |-> "cleanupExpiredSessions", done |-> TRUE,
                                threw |-> TRUE, cleanedCount |-> sweep.count,
                                checked |-> {}, now |-> sweep.now]
                /\ UNCHANGED <<auditLog, sessions, sessionHierarchy>>
        /\ UNCHANGED <<clock, calls, agentVars, conflictVars, patternVars>>

----------------------------------------------------------------------------
\* Agents.

\* performance of a freshly registered agent; successRate 1.0 is the
\* fraction <<1, 1>>.
InitialPerformance ==
    [tasksCompleted |-> 0, successRate |-> <<1, 1>>, averageResponseTime |-> 0,
     conflictResolutions |-> 0, patternContributions |-> 0]

\* this.agents.set(agentId, agent): adds the key or overwrites its value.
MapSet(map, key, value) ==
    [k \in DOMAIN map \cup {key} |-> IF k = key THEN value ELSE map[k]]

\* registerAgent(agentId, role, specialization)
RegisterAgent(agentId, role, specialization, auditOk) ==
    LET agent == [role |-> role,
                  specialization |-> specialization,
                  currentSessions |-> <<>>,
                  performance |-> InitialPerformance]
    IN  /\ auditOk => SinkAccepts
        /\ agents' = MapSet(agents, agentId, agent)
        /\ auditLog' = IF auditOk
                       THEN Append(auditLog, [category |-> "orchestration",
                                              event |-> "agent_registration",
                                              id |-> agentId])
                       ELSE auditLog
        /\ lastCall' = [op |-> "registerAgent", agentId |-> agentId,
                        wasRegistered |-> agentId \in DOMAIN agents,
                        threw |-> ~auditOk,
                        result |-> agent]
        /\ UNCHANGED <<clock, reported, calls, sessionVars, conflictVars, patternVars>>

\* A request that reports a task outcome for an agent.  The orchestrator has
\* no method that takes it and executeTool has no case for it: the request
\* ends in the default branch ("Unknown tool") and no state is written.
RECURSIVE ReportsIn(_)
ReportsIn(ids) ==
    IF ids = {} THEN 0
    ELSE LET a == CHOOSE x \in ids : TRUE
         IN  reported[a].total + ReportsIn(ids \ {a})

ReportOutcome(agentId, success) ==
    /\ ReportsIn(AgentIdInputs) < MaxReports
    /\ reported' = IF agentId \in DOMAIN agents
                   THEN [reported EXCEPT ![agentId] =
                           [total |-> @.total + 1,
                            successes |-> @.successes + (IF success THEN 1 ELSE 0)]]
                   ELSE reported
    /\ lastCall' = [op |-> "reportOutcome", agentId |-> agentId,
                    success |-> success, isError |-> TRUE]
    /\ UNCHANGED <<clock, agents, calls, auditLog, sessionVars, conflictVars, patternVars>>

AgentNext ==
    \/ \E a \in AgentIdInputs, r \in AgentRoleInputs, sp \in SpecializationInputs,
          ok \in BOOLEAN : RegisterAgent(a, r, sp, ok)
    \/ \E a \in AgentIdInputs, ok \in BOOLEAN : ReportOutcome(a, ok)

SpecAgent == Init /\ [][AgentNext]_vars

----------------------------------------------------------------------------
\* Conflicts.  Confidence and consensus values are in hundredths.

Tier1Enabled == TRUE
Tier2Enabled == TRUE
Tier3Enabled == TRUE
ContextualAnalysisOn == TRUE
VotingMechanismOn == TRUE

ContextualConfidence == 90
VotingConsensus == 80

\* What the strategy functions of the code return: each is a stub with a
\* fixed result, whatever the conflict.
StubOutcomes ==
    [tier1 |-> TRUE, confidence |-> ContextualConfidence,
     consensus |-> VotingConsensus, elapsed |-> 0]

\* Any results the strategy functions could return; StubOutcomes is one.
\* elapsed is the time in ms the tier-2 strategies take to return.
StrategyOutcomes ==
    [tier1 : BOOLEAN, confidence : {ContextualConfidence, 80},
     consensus : {VotingConsensus, 70}, elapsed : {0}]

\* tier2.escalationCriteria.maxMediationTime, in seconds
MaxMediationTime == 300

\* Tier-1 strategies that do not resolve, and tier-2 strategies that return
\* any result, at once or after more than maxMediationTime.
SlowOutcomes ==
    [tier1 : {FALSE}, confidence : {ContextualConfidence, 80},
     consensus : {VotingConsensus, 70},
     elapsed : {0, MaxMediationTime * 1000 + 1}]

\* Mutant of resolveMemoryConflict: it names no strategy.
resolveMemoryConflictUnnamed(conflict, outcomes) ==
    [resolved |-> outcomes.tier1, strategy |-> ""]

resolveMemoryConflict(conflict, outcomes) ==
    [resolved |-> outcomes.tier1, strategy |-> "memory_deduplication"]

\* Mutant of resolveSessionConflict: it reports another strategy's name.
resolveSessionConflictMisnamed(conflict, outcomes) ==
    [resolved |-> outcomes.tier1, strategy |-> "memory_deduplication"]

resolveSessionConflict(conflict, outcomes) ==
    [resolved |-> outcomes.tier1, strategy |-> "session_hierarchy_precedence"]

resolveAgentConflict(conflict, outcomes) ==
    [resolved |-> outcomes.tier1, strategy |-> "agent_precedence"]

resolvePatternConflict(conflict, outcomes) ==
    [resolved |-> outcomes.tier1, strategy |-> "pattern_priority"]

performContextualAnalysis(conflict, outcomes) ==
    [confidence |-> outcomes.confidence]

conductAgentVoting(conflict, outcomes) == [consensus |-> outcomes.consensus]

attemptTier1Resolution(conflict, outcomes) ==
    IF ~Tier1Enabled
    THEN [resolved |-> FALSE, strategy |-> "tier1_disabled"]
    ELSE CASE conflict.type = "memory_conflict" ->
                  resolveMemoryConflict(conflict, outcomes)
           [] conflict.type = "session_conflict" ->
                  resolveSessionConflict(conflict, outcomes)
           [] conflict.type = "agent_conflict" ->
                  resolveAgentConflict(conflict, outcomes)
           [] conflict.type = "pattern_conflict" ->
                  resolvePatternConflict(conflict, outcomes)
           [] OTHER -> [resolved |-> FALSE, strategy |-> "unknown_conflict_type"]

\* Mutant of Mediators: any registered agent mediates.
MediatorsAnyAgent == DOMAIN agents

Mediators ==
    {a \in DOMAIN agents : agents[a].role \in {"coordinator", "orchestrator"}}

\* Mutant of attemptTier2Resolution: the vote is held first, whatever the
\* number of involved agents, and the contextual analysis after it.
attemptTier2VotingFirst(conflict, outcomes) ==
    IF ~Tier2Enabled
    THEN [resolved |-> FALSE, strategy |-> "tier2_disabled", attempted |-> <<>>]
    ELSE IF Mediators = {}
    THEN [resolved |-> FALSE, strategy |-> "no_mediators_available",
          attempted |-> <<>>]
    ELSE IF conductAgentVoting(conflict, outcomes).consensus > 70
    THEN [resolved |-> TRUE, strategy |-> "agent_voting",
          attempted |-> <<"agent_voting">>]
    ELSE IF performContextualAnalysis(conflict, outcomes).confidence > 80
    THEN [resolved |-> TRUE, strategy |-> "contextual_analysis",
          attempted |-> <<"agent_voting", "contextual_analysis">>]
    ELSE [resolved |-> FALSE, strategy |-> "tier2_exhausted",
          attempted |-> <<"agent_voting", "contextual_analysis">>]

\* attempted lists, in order, the tier-2 strategies the call has run.
attemptTier2Resolution(conflict, outcomes) ==
    IF ~Tier2Enabled
    THEN [resolved |-> FALSE, strategy |-> "tier2_disabled", attempted |-> <<>>]
    ELSE IF Mediators = {}
    THEN [resolved |-> FALSE, strategy |-> "no_mediators_available",
          attempted |-> <<>>]
    ELSE LET analysed == IF ContextualAnalysisOn
                         THEN <<"contextual_analysis">> ELSE <<>>
         IN  IF ContextualAnalysisOn
                /\ performContextualAnalysis(conflict, outcomes).confidence > 80
             THEN [resolved |-> TRUE, strategy |-> "contextual_analysis",
                   attempted |-> analysed]
             ELSE IF VotingMechanismOn /\ Len(conflict.involvedAgents) > 1
             THEN IF conductAgentVoting(conflict, outcomes).consensus > 70
                  THEN [resolved |-> TRUE, strategy |-> "agent_voting",
                        attempted |-> Append(analysed, "agent_voting")]
                  ELSE [resolved |-> FALSE, strategy |-> "tier2_exhausted",
                        attempted |-> Append(analysed, "agent_voting")]
             ELSE [resolved |-> FALSE, strategy |-> "tier2_exhausted",
                   attempted |-> analysed]

\* The ConflictRecord resolveConflict builds on entry.
newConflict(conflictType, involvedItems, severity, now) ==
    [type |-> conflictType,
     severity |-> severity,
     involvedMemories |->
         IF conflictType = "memory_conflict" THEN involvedItems ELSE <<>>,
     involvedSessions |->
         IF conflictType = "session_conflict" THEN involvedItems ELSE <<>>,
     involvedAgents |->
         IF conflictType = "agent_conflict" THEN involvedItems ELSE <<>>,
     resolutionTier |-> 1,
     resolutionStrategy |-> "",
     status |-> "pending",
     createdAt |-> now,
     resolvedAt |-> NoTime]

\* conflict.involvedMemories.concat(conflict.involvedSessions,
\*                                  conflict.involvedAgents)
involvedIn(conflict) ==
    conflict.involvedMemories \o conflict.involvedSessions \o conflict.involvedAgents

\* Mutant of runTiers: a critical conflict is escalated without going through
\* tiers 1 and 2.
runTiersEscalatingCritical(conflict, now, outcomes) ==
    LET tier1Result == attemptTier1Resolution(conflict, outcomes)
        atTier2 == [conflict EXCEPT !.resolutionTier = 2]
        tier2Result == attemptTier2Resolution(atTier2, outcomes)
        mediationTime == IF tier2Result.attempted = <<>> THEN 0 ELSE outcomes.elapsed
        resolved1 == [conflict EXCEPT !.status = "resolved",
                                      !.resolvedAt = now,
                                      !.resolutionStrategy = tier1Result.strategy]
        resolved2 == [atTier2 EXCEPT !.status = "resolved",
                                     !.resolvedAt = now + mediationTime,
                                     !.resolutionStrategy = tier2Result.strategy]
        escalated == [atTier2 EXCEPT !.resolutionTier = 3,
                                     !.status = "escalated"]
    IN  IF conflict.severity = "critical"
        THEN [conflict |-> escalated,
              tiers |-> <<[tier |-> 3, resolved |-> FALSE]>>,
              stages |-> <<escalated, escalated>>,
              tier2Attempted |-> <<>>,
              mediationTime |-> 0,
              escalate |-> TRUE]
        ELSE IF tier1Result.resolved
        THEN [conflict |-> resolved1,
              tiers |-> <<[tier |-> 1, resolved |-> TRUE]>>,
              stages |-> <<conflict, resolved1>>,
              tier2Attempted |-> <<>>,
              mediationTime |-> 0,
              escalate |-> FALSE]
        ELSE IF tier2Result.resolved
        THEN [conflict |-> resolved2,
              tiers |-> <<[tier |-> 1, resolved |-> FALSE],
                          [tier |-> 2, resolved |-> TRUE]>>,
              stages |-> <<conflict, atTier2, resolved2>>,
              tier2Attempted |-> tier2Result.attempted,
              mediationTime |-> mediationTime,
              escalate |-> FALSE]
        ELSE [conflict |-> escalated,
              tiers |-> <<[tier |-> 1, resolved |-> FALSE],
                          [tier |-> 2, resolved |-> FALSE],
                          [tier |-> 3, resolved |-> FALSE]>>,
              stages |-> <<conflict, atTier2, escalated, escalated>>,
              tier2Attempted |-> tier2Result.attempted,
              mediationTime |-> mediationTime,
              escalate |-> TRUE]

\* Mutant of runTiers: a conflict tier 1 has not resolved is escalated at
\* once, without mediation.
runTiersSkippingMediation(conflict, now, outcomes) ==
    LET tier1Result == attemptTier1Resolution(conflict, outcomes)
        resolved1 == [conflict EXCEPT !.status = "resolved",
                                      !.resolvedAt = now,
                                      !.resolutionStrategy = tier1Result.strategy]
        escalated == [conflict EXCEPT !.resolutionTier = 3,
                                      !.status = "escalated"]
    IN  IF tier1Result.resolved
        THEN [conflict |-> resolved1,
              tiers |-> <<[tier |-> 1, resolved |-> TRUE]>>,
              stages |-> <<conflict, resolved1>>,
              tier2Attempted |-> <<>>,
              mediationTime |-> 0,
              escalate |-> FALSE]
        ELSE [conflict |-> escalated,
              tiers |-> <<[tier |-> 1, resolved |-> FALSE],
                          [tier |-> 3, resolved |-> FALSE]>>,
              stages |-> <<conflict, escalated, escalated>>,
              tier2Attempted |-> <<>>,
              mediationTime |-> 0,
              escalate |-> TRUE]

\* Mutant of runTiers: a conflict that mediation resolves is put back at
\* tier 1.
runTiersResetting(conflict, now, outcomes) ==
    LET tier1Result == attemptTier1Resolution(conflict, outcomes)
        atTier2 == [conflict EXCEPT !.resolutionTier = 2]
        tier2Result == attemptTier2Resolution(atTier2, outcomes)
        mediationTime == IF tier2Result.attempted = <<>> THEN 0 ELSE outcomes.elapsed
        resolved1 == [conflict EXCEPT !.status = "resolved",
                                      !.resolvedAt = now,
                                      !.resolutionStrategy = tier1Result.strategy]
        resolved2 == [atTier2 EXCEPT !.status = "resolved",
                                     !.resolutionTier = 1,
                                     !.resolvedAt = now + mediationTime,
                                     !.resolutionStrategy = tier2Result.strategy]
        escalated == [atTier2 EXCEPT !.resolutionTier = 3,
                                     !.status = "escalated"]
    IN  IF tier1Result.resolved
        THEN [conflict |-> resolved1,
              tiers |-> <<[tier |-> 1, resolved |-> TRUE]>>,
              stages |-> <<conflict, resolved1>>,
              tier2Attempted |-> <<>>,
              mediationTime |-> 0,
              escalate |-> FALSE]
        ELSE IF tier2Result.resolved
        THEN [conflict |-> resolved2,
              tiers |-> <<[tier |-> 1, resolved |-> FALSE],
                          [tier |-> 2, resolved |-> TRUE]>>,
              stages |-> <<conflict, atTier2, resolved2>>,
              tier2Attempted |-> tier2Result.attempted,
              mediationTime |-> mediationTime,
              escalate |-> FALSE]
        ELSE [conflict |-> escalated,
              tiers |-> <<[tier |-> 1, resolved |-> FALSE],
                          [tier |-> 2, resolved |-> FALSE],
                          [tier |-> 3, resolved |-> FALSE]>>,
              stages |-> <<conflict, atTier2, escalated, escalated>>,
              tier2Attempted |-> tier2Result.attempted,
              mediationTime |-> mediationTime,
              escalate |-> TRUE]

\* The body of resolveConflict on a new conflict record: the record as the
\* call leaves it, the tiers it went through (with each tier's result), the
\* record as the store holds it at each await of the call and at its return
\* (stages), the time spent in the tier-2 strategies and whether
\* escalateToHuman was entered.
runTiers(conflict, now, outcomes) ==
    LET tier1Result == attemptTier1Resolution(conflict, outcomes)
        atTier2 == [conflict EXCEPT !.resolutionTier = 2]
        tier2Result == attemptTier2Resolution(atTier2, outcomes)
        mediationTime == IF tier2Result.attempted = <<>> THEN 0 ELSE outcomes.elapsed
        resolved1 == [conflict EXCEPT !.status = "resolved",
                                      !.resolvedAt = now,
                                      !.resolutionStrategy = tier1Result.strategy]
        resolved2 == [atTier2 EXCEPT !.status = "resolved",
                                     !.resolvedAt = now + mediationTime,
                                     !.resolutionStrategy = tier2Result.strategy]
        escalated == [atTier2 EXCEPT !.resolutionTier = 3,
                                     !.status = "escalated"]
    IN  IF tier1Result.resolved
        THEN [conflict |-> resolved1,
              tiers |-> <<[tier |-> 1, resolved |-> TRUE]>>,
              stages |-> <<conflict, resolved1>>,
              tier2Attempted |-> <<>>,
              mediationTime |-> 0,
              escalate |-> FALSE]
        ELSE IF tier2Result.resolved
        THEN [conflict |-> resolved2,
              tiers |-> <<[tier |-> 1, resolved |-> FALSE],
                          [tier |-> 2, resolved |-> TRUE]>>,
              stages |-> <<conflict, atTier2, resolved2>>,
              tier2Attempted |-> tier2Result.attempted,
              mediationTime |-> mediationTime,
              escalate |-> FALSE]
        ELSE [conflict |-> escalated,
              tiers |-> <<[tier |-> 1, resolved |-> FALSE],
                          [tier |-> 2, resolved |-> FALSE],
                          [tier |-> 3, resolved |-> FALSE]>>,
              stages |-> <<conflict, atTier2, escalated, escalated>>,
              tier2Attempted |-> tier2Result.attempted,
              mediationTime |-> mediationTime,
              escalate |-> TRUE]

\* Mutant of ResolveConflict: each call also runs the stored escalated
\* conflicts through the tiers again.
ResolveConflictRetrying(conflictType, involvedItems, severity, auditOk, outcomes) ==
    LET conflictId == Len(conflicts) + 1
        conflict == newConflict(conflictType, involvedItems, severity, clock)
        r == runTiers(conflict, clock, outcomes)
        audited == r.escalate /\ Tier3Enabled
        retried == [c \in DOMAIN conflicts |->
                      IF conflicts[c].status = "escalated"
                      THEN runTiers(conflicts[c], clock, outcomes).conflict
                      ELSE conflicts[c]]
    IN  /\ Len(conflicts) < MaxConflicts
        /\ (audited /\ auditOk) => SinkAccepts
        /\ conflicts' = Append(retried, r.conflict)
        /\ auditLog' = IF audited /\ auditOk
                       THEN Append(auditLog, [category |-> "orchestration",
                                              event |-> "human_escalation",
                                              id |-> conflictId,
                                              items |-> involvedIn(r.conflict)])
                       ELSE auditLog
        /\ activeConflicts' = IF audited /\ auditOk
                              THEN Append(activeConflicts, conflictId)
                              ELSE activeConflicts
        /\ lastCall' = [op |-> "resolveConflict", conflictId |-> conflictId,
                        involvedItems |-> involvedItems,
                        tiers |-> r.tiers,
                        stages |-> r.stages,
                        tier2Attempted |-> r.tier2Attempted,
                        mediationTime |-> r.mediationTime,
                        threw |-> audited /\ ~auditOk,
                        result |-> r.conflict]
        /\ clock' = clock + r.mediationTime
        /\ UNCHANGED <<calls, agentVars, sessionVars, patternVars>>

\* resolveConflict(conflictType, involvedItems, severity); auditOk is whether
\* the storeMemory call of escalateToHuman resolves, when it is made, and
\* outcomes are the results of the strategy functions.
ResolveConflict(conflictType, involvedItems, severity, auditOk, outcomes) ==
    LET conflictId == Len(conflicts) + 1
        conflict == newConflict(conflictType, involvedItems, severity, clock)
        r == runTiers(conflict, clock, outcomes)
        audited == r.escalate /\ Tier3Enabled
    IN  /\ Len(conflicts) < MaxConflicts
        /\ (audited /\ auditOk) => SinkAccepts
        /\ conflicts' = Append(conflicts, r.conflict)
        /\ auditLog' = IF audited /\ auditOk
                       THEN Append(auditLog, [category |-> "orchestration",
                                              event |-> "human_escalation",
                                              id |-> conflictId,
                                              items |-> involvedIn(r.conflict)])
                       ELSE auditLog
        /\ activeConflicts' = IF audited /\ auditOk
                              THEN Append(activeConflicts, conflictId)
                              ELSE activeConflicts
        /\ lastCall' = [op |-> "resolveConflict", conflictId |-> conflictId,
                        involvedItems |-> involvedItems,
                        tiers |-> r.tiers,
                        stages |-> r.stages,
                        tier2Attempted |-> r.tier2Attempted,
                        mediationTime |-> r.mediationTime,
                        threw |-> audited /\ ~auditOk,
                        result |-> r.conflict]
        /\ clock' = clock + r.mediationTime
        /\ UNCHANGED <<calls, agentVars, sessionVars, patternVars>>

ConflictStep(strategyOutcomes) ==
    \/ \E r \in AgentRoleInputs :
          "a1" \notin DOMAIN agents /\ RegisterAgent("a1", r, <<>>, TRUE)
    \/ \E t \in ConflictTypes, items \in ItemInputs, sev \in SeverityInputs,
          ok \in BOOLEAN, o \in strategyOutcomes :
          ResolveConflict(t, items, sev, ok, o)

\* The conflict resolver with the strategy functions as the code has them.
ConflictNext == ConflictStep({StubOutcomes})

SpecConflict == Init /\ [][ConflictNext]_vars

\* The conflict resolver whatever the strategy functions return: every
\* behaviour of SpecConflict is one of SpecTiers.
TiersNext == ConflictStep(StrategyOutcomes)

SpecTiers == Init /\ [][TiersNext]_vars

\* The conflict resolver with tier-2 strategies that may take long.
MediationNext == ConflictStep(SlowOutcomes)

SpecMediation == Init /\ [][MediationNext]_vars

----------------------------------------------------------------------------
\* Patterns.  confidence and match scores are in hundredths; successRate is
\* the exact fraction <<numerator, denominator>> in lowest terms.

RECURSIVE Gcd(_, _)
Gcd(a, b) == IF b = 0 THEN a ELSE Gcd(b, a % b)

Fraction(num, den) ==
    LET g == Gcd(num, den) IN IF g = 0 THEN <<num, den>> ELSE <<num \div g, den \div g>>

\* ((successRate * (usageCount - 1)) + gain) / usageCount
RunningAverage(successRate, usageCount, gain) ==
    Fraction(successRate[1] * (usageCount - 1) + gain * successRate[2],
             successRate[2] * usageCount)

InitialConfidence == 50
MatchScore == 85
MatchThreshold == 70

\* What evaluatePatternMatch and executePatternActions do in the code: the
\* first is a stub with a fixed score, the second has an empty body and
\* never throws.
PatternStubOutcomes == [score |-> MatchScore, executes |-> TRUE]

\* Any match score around the threshold and either outcome of the execution;
\* PatternStubOutcomes is one.
PatternOutcomes ==
    [score : {MatchThreshold - 1, MatchThreshold, MatchScore}, executes : BOOLEAN]

evaluatePatternMatch(conditions, context, outcomes) == outcomes.score

\* Whether executePatternActions returns (TRUE) or throws (FALSE).
executePatternActions(actions, context, outcomes) == outcomes.executes

\* learnPattern(type, context, action, applicableContexts); the counter is
\* incremented after the awaited storeMemory call, so not when it throws.
LearnPattern(type, conditions, actions, applicableContexts, auditOk) ==
    LET patternId == Len(patterns) + 1
        pattern == [type |-> type,
                    conditions |-> conditions,
                    actions |-> actions,
                    confidence |-> InitialConfidence,
                    usageCount |-> 0,
                    successRate |-> <<0, 1>>,
                    lastApplied |-> clock,
                    applicableContexts |-> applicableContexts]
    IN  /\ Len(patterns) < MaxPatterns
        /\ auditOk => SinkAccepts
        /\ patterns' = Append(patterns, pattern)
        /\ executions' = Append(executions, [attempts |-> 0, succeeded |-> 0])
        /\ auditLog' = IF auditOk
                       THEN Append(auditLog, [category |-> "pattern",
                                              event |-> "pattern_learning",
                                              id |-> patternId])
                       ELSE auditLog
        /\ patternsLearned' = IF auditOk THEN patternsLearned + 1 ELSE patternsLearned
        /\ lastCall' = [op |-> "learnPattern", patternId |-> patternId,
                        threw |-> ~auditOk, result |-> pattern]
        /\ UNCHANGED <<clock, patternsApplied, calls, agentVars, sessionVars, conflictVars>>

\* Mutant of applyPattern: an application of an unknown pattern is counted.
applyPatternCountingMiss(P, applied, patternId, currentContext, now, outcomes) ==
    IF patternId \notin 1..Len(P)
    THEN [patterns |-> P, patternsApplied |-> applied + 1, result |-> FALSE,
          executed |-> FALSE]
    ELSE IF evaluatePatternMatch(P[patternId].conditions, currentContext, outcomes)
              < MatchThreshold
    THEN [patterns |-> P, patternsApplied |-> applied, result |-> FALSE,
          executed |-> FALSE]
    ELSE IF executePatternActions(P[patternId].actions, currentContext, outcomes)
    THEN LET usageCount == P[patternId].usageCount + 1
         IN  [patterns |-> [P EXCEPT ![patternId].usageCount = usageCount,
                                     ![patternId].lastApplied = now,
                                     ![patternId].successRate =
                                         RunningAverage(@, usageCount, 1)],
              patternsApplied |-> applied + 1,
              result |-> TRUE,
              executed |-> TRUE]
    ELSE [patterns |-> [P EXCEPT ![patternId].successRate =
                                     RunningAverage(@, P[patternId].usageCount, 0)],
          patternsApplied |-> applied,
          result |-> FALSE,
          executed |-> TRUE]

\* Mutant of applyPattern: a score one hundredth under the threshold passes.
applyPatternLenient(P, applied, patternId, currentContext, now, outcomes) ==
    IF patternId \notin 1..Len(P)
    THEN [patterns |-> P, patternsApplied |-> applied, result |-> FALSE,
          executed |-> FALSE]
    ELSE IF evaluatePatternMatch(P[patternId].conditions, currentContext, outcomes)
              < MatchThreshold - 1
    THEN [patterns |-> P, patternsApplied |-> applied, result |-> FALSE,
          executed |-> FALSE]
    ELSE IF executePatternActions(P[patternId].actions, currentContext, outcomes)
    THEN LET usageCount == P[patternId].usageCount + 1
         IN  [patterns |-> [P EXCEPT ![patternId].usageCount = usageCount,
                                     ![patternId].lastApplied = now,
                                     ![patternId].successRate =
                                         RunningAverage(@, usageCount, 1)],
              patternsApplied |-> applied + 1,
              result |-> TRUE,
              executed |-> TRUE]
    ELSE [patterns |-> [P EXCEPT ![patternId].successRate =
                                     RunningAverage(@, P[patternId].usageCount, 0)],
          patternsApplied |-> applied,
          result |-> FALSE,
          executed |-> TRUE]

\* applyPattern(patternId, currentContext): the pattern store and the applied
\* counter after the call, what it returns, and whether it reached
\* executePatternActions.  When that throws, the catch branch recomputes
\* successRate with the usageCount as it stands and returns false.
applyPattern(P, applied, patternId, currentContext, now, outcomes) ==
    IF patternId \notin 1..Len(P)
    THEN [patterns |-> P, patternsApplied |-> applied, result |-> FALSE,
          executed |-> FALSE]
    ELSE IF evaluatePatternMatch(P[patternId].conditions, currentContext, outcomes)
              < MatchThreshold
    THEN [patterns |-> P, patternsApplied |-> applied, result |-> FALSE,
          executed |-> FALSE]
    ELSE IF executePatternActions(P[patternId].actions, currentContext, outcomes)
    THEN LET usageCount == P[patternId].usageCount + 1
         IN  [patterns |-> [P EXCEPT ![patternId].usageCount = usageCount,
                                     ![patternId].lastApplied = now,
                                     ![patternId].successRate =
                                         RunningAverage(@, usageCount, 1)],
              patternsApplied |-> applied + 1,
              result |-> TRUE,
              executed |-> TRUE]
    ELSE [patterns |-> [P EXCEPT ![patternId].successRate =
                                     RunningAverage(@, P[patternId].usageCount, 0)],
          patternsApplied |-> applied,
          result |-> FALSE,
          executed |-> TRUE]

\* A call of applyPattern; the executions of each pattern are bounded.
ApplyPattern(patternId, currentContext, outcomes) ==
    LET r == applyPattern(patterns, patternsApplied, patternId, currentContext,
                          clock, outcomes)
        known == patternId \in 1..Len(patterns)
    IN  /\ known => executions[patternId].attempts < MaxUsage
        /\ patterns' = r.patterns
        /\ patternsApplied' = r.patternsApplied
        /\ executions' =
              IF r.executed
              THEN [executions EXCEPT ![patternId] =
                      [attempts |-> @.attempts + 1,
                       succeeded |-> @.succeeded + (IF r.result THEN 1 ELSE 0)]]
              ELSE executions
        /\ lastCall' = [op |-> "applyPattern", patternId |-> patternId,
                        known |-> known,
                        score |-> IF known THEN outcomes.score ELSE 0,
                        executed |-> r.executed,
                        caught |-> r.executed /\ ~outcomes.executes,
                        result |-> r.result]
        /\ UNCHANGED <<clock, patternsLearned, auditLog, calls, agentVars, sessionVars,
                       conflictVars>>

\* Mutant of AnalyzeAndLearnPatterns: the analysis sets the confidence of
\* every used pattern to 1 in one step.
AnalyzeAndLearnPatternsJumping ==
    /\ patterns' = [p \in 1..Len(patterns) |->
                      IF patterns[p].usageCount > 0
                      THEN [patterns[p] EXCEPT !.confidence = 100]
                      ELSE patterns[p]]
    /\ lastCall' = [op |-> "analyzeAndLearnPatterns"]
    /\ UNCHANGED <<clock, auditLog, calls, agentVars, sessionVars, conflictVars,
                   patternsLearned, patternsApplied, executions>>

\* The 10-minute timer calls analyzeAndLearnPatterns, whose body is empty.
AnalyzeAndLearnPatterns ==
    /\ lastCall' = [op |-> "analyzeAndLearnPatterns"]
    /\ UNCHANGED <<clock, auditLog, calls, agentVars, sessionVars, conflictVars,
                   patternVars>>

PatternStep(patternOutcomes) ==
    \/ Tick
    \/ \E t \in PatternTypeInputs, c \in ConditionInputs, a \in ActionInputs,
          ctx \in ContextListInputs, ok \in BOOLEAN : LearnPattern(t, c, a, ctx, ok)
    \/ \E p \in 1..Len(patterns) \cup {UnknownId}, ctx \in ContextInputs,
          o \in patternOutcomes : ApplyPattern(p, ctx, o)
    \/ AnalyzeAndLearnPatterns

\* The pattern store with the match and execution functions as the code has
\* them.
PatternNext == PatternStep({PatternStubOutcomes})

SpecPattern == Init /\ [][PatternNext]_vars

\* Learning and applying patterns whatever score the match function returns
\* and whether or not the execution throws; the calls of SpecPattern that
\* learn and apply are among these.
ApplyNext ==
    \/ \E c \in ConditionInputs, a \in ActionInputs, ctx \in ContextListInputs,
          ok \in BOOLEAN : LearnPattern("workflow", c, a, ctx, ok)
    \/ \E p \in 1..Len(patterns) \cup {UnknownId}, o \in PatternOutcomes :
          ApplyPattern(p, [k \in {"op"} |-> "search"], o)

SpecApply == Init /\ [][ApplyNext]_vars

----------------------------------------------------------------------------
\* Concurrent session creation.  createSession runs without an await from
\* its entry to the storeMemory call: the push to the parent's child list
\* and the two map writes are done when it is suspended, and nothing is
\* written after it resumes.

\* A suspended call leaves the sequence of suspended calls when it resumes.
RemoveAt(seq, i) == SubSeq(seq, 1, i - 1) \o SubSeq(seq, i + 1, Len(seq))

\* Mutant of settleCreate: the resumed call writes the parent's child list
\* back as it was when the call was suspended.
settleCreateWritingBack(S, call) ==
    IF call.parentSessionId # NoParent /\ call.parentSessionId \in 1..Len(S)
    THEN [S EXCEPT ![call.parentSessionId].childSessions = call.seen]
    ELSE S

\* What createSession writes to the session map after the await: nothing.
settleCreate(S, call) == S

\* A call of createSession runs to the await of storeMemory.  call.seen is
\* the parent's child list as the call left it.
CreateStart(agentRole, parentSessionId, initialState, ttl) ==
    LET sessionId == Len(sessions) + 1
        hierarchyLevel == hierarchyLevelFor(sessions, parentSessionId)
        session == [parentSessionId |-> parentSessionId,
                    hierarchyLevel |-> hierarchyLevel,
                    agentRole |-> agentRole,
                    state |-> initialState,
                    createdAt |-> clock,
                    ttl |-> IF ttl = 0 THEN DefaultTtl ELSE ttl,
                    isActive |-> TRUE,
                    childSessions |-> <<>>]
        withChild == addToParent(sessions, parentSessionId, sessionId)
    IN  /\ Len(sessions) < MaxSessions + 1
        /\ Len(calls) < MaxCalls
        /\ sessions' = Append(withChild, session)
        /\ sessionHierarchy' = sessionHierarchy \cup {sessionId}
        /\ calls' = Append(calls,
                           [op |-> "createSession",
                            sessionId |-> sessionId,
                            parentSessionId |-> parentSessionId,
                            seen |-> IF parentSessionId \in 1..Len(sessions)
                                     THEN withChild[parentSessionId].childSessions
                                     ELSE <<>>])
        /\ lastCall' = [op |-> "createSession.await",
                        parentSessionId |-> parentSessionId,
                        sessionId |-> sessionId]
        /\ UNCHANGED <<clock, sweep, auditLog, agentVars, conflictVars, patternVars>>

\* The storeMemory call of the i-th suspended createSession settles and the
\* call returns the session or rejects.
CreateResume(i, auditOk) ==
    /\ i \in 1..Len(calls)
    /\ calls[i].op = "createSession"
    /\ auditOk => SinkAccepts
    /\ sessions' = settleCreate(sessions, calls[i])
    /\ auditLog' = IF auditOk
                   THEN Append(auditLog, [category |-> "session_context",
                                          event |-> "created",
                                          id |-> calls[i].sessionId])
                   ELSE auditLog
    /\ lastCall' = [op |-> "createSession.return",
                    sessionId |-> calls[i].sessionId,
                    parentSessionId |-> calls[i].parentSessionId,
                    overlapped |-> Len(calls) > 1,
                    threw |-> ~auditOk]
    /\ calls' = RemoveAt(calls, i)
    /\ UNCHANGED <<clock, sessionHierarchy, sweep, agentVars, conflictVars,
                   patternVars>>

\* Calls of createSession that overlap with each other, with reads of the
\* first session and with the sweep.
ConcurrentCreateNext ==
    \/ Tick
    \/ \E p \in (IF sessions = <<>> THEN {NoParent} ELSE {1}) :
          CreateStart("specialist", p, [k \in {"a"} |-> 1], 1)
    \/ \E i \in 1..Len(calls), ok \in BOOLEAN : CreateResume(i, ok)
    \/ 1 \in SessionIds /\ GetSession(1, FALSE)
    \/ CleanupStart
    \/ CleanupResume(TRUE)

SpecConcurrentCreate == Init /\ [][ConcurrentCreateNext]_vars

----------------------------------------------------------------------------
\* Concurrent applications of a pattern.  applyPattern runs to its await of
\* executePatternActions, is suspended there while other calls run, and
\* resumes in the try block (or in the catch block when the execution
\* threw).

\* Mutant of finishApply: the statistics are computed from the pattern as
\* the call read it before the await and written back.
finishApplyStale(P, applied, call, now) ==
    LET patternId == call.patternId
    IN  IF executePatternActions(P[patternId].actions, call.context, call.outcomes)
        THEN LET usageCount == call.seen.usageCount + 1
             IN  [patterns |-> [P EXCEPT ![patternId].usageCount = usageCount,
                                         ![patternId].lastApplied = now,
                                         ![patternId].successRate =
                                             RunningAverage(call.seen.successRate,
                                                            usageCount, 1)],
                  patternsApplied |-> applied + 1,
                  result |-> TRUE]
        ELSE [patterns |-> [P EXCEPT ![patternId].successRate =
                                         RunningAverage(call.seen.successRate,
                                                        call.seen.usageCount, 0)],
              patternsApplied |-> applied,
              result |-> FALSE]

\* applyPattern from the await on, for a suspended call.  `pattern` is the
\* object stored in the map, so usageCount++ and the successRate formula
\* read the fields as they are at the resumption, not as the call saw them
\* before the await (call.seen).
finishApply(P, applied, call, now) ==
    LET patternId == call.patternId
    IN  IF executePatternActions(P[patternId].actions, call.context, call.outcomes)
        THEN LET usageCount == P[patternId].usageCount + 1
             IN  [patterns |-> [P EXCEPT ![patternId].usageCount = usageCount,
                                         ![patternId].lastApplied = now,
                                         ![patternId].successRate =
                                             RunningAverage(@, usageCount, 1)],
                  patternsApplied |-> applied + 1,
                  result |-> TRUE]
        ELSE [patterns |-> [P EXCEPT ![patternId].successRate =
                                         RunningAverage(@, P[patternId].usageCount, 0)],
              patternsApplied |-> applied,
              result |-> FALSE]

\* A call of applyPattern on a stored pattern whose score passes the
\* threshold runs to the await.
ApplyStart(patternId, currentContext, outcomes) ==
    /\ patternId \in 1..Len(patterns)
    /\ evaluatePatternMatch(patterns[patternId].conditions, currentContext,
                            outcomes) >= MatchThreshold
    /\ Len(calls) < MaxCalls
    /\ executions[patternId].attempts < MaxUsage
    /\ calls' = Append(calls, [op |-> "applyPattern",
                               patternId |-> patternId,
                               context |-> currentContext,
                               outcomes |-> outcomes,
                               seen |-> patterns[patternId]])
    /\ executions' = [executions EXCEPT ![patternId].attempts = @ + 1]
    /\ lastCall' = [op |-> "applyPattern.await", patternId |-> patternId]
    /\ UNCHANGED <<clock, auditLog, patterns, patternsLearned, patternsApplied,
                   agentVars, sessionVars, conflictVars>>

\* The i-th suspended call resumes and returns.
ApplyResume(i) ==
    /\ i \in 1..Len(calls)
    /\ calls[i].op = "applyPattern"
    /\ LET call == calls[i]
           r == finishApply(patterns, patternsApplied, call, clock)
       IN  /\ patterns' = r.patterns
           /\ patternsApplied' = r.patternsApplied
           /\ executions' = [executions EXCEPT ![call.patternId].succeeded =
                                @ + (IF r.result THEN 1 ELSE 0)]
           /\ lastCall' = [op |-> "applyPattern.return",
                           patternId |-> call.patternId,
                           seenUsage |-> call.seen.usageCount,
                           usageBefore |-> patterns[call.patternId].usageCount,
                           result |-> r.result]
    /\ calls' = RemoveAt(calls, i)
    /\ UNCHANGED <<clock, auditLog, patternsLearned, agentVars, sessionVars,
                   conflictVars>>

\* Calls of applyPattern that overlap, with the match and execution
\* functions as the code has them.
ConcurrentApplyNext ==
    \/ \E t \in PatternTypeInputs, ok \in BOOLEAN :
          LearnPattern(t, [k \in {"op"} |-> "search"],
                       [k \in {"strategy"} |-> "cache"], <<"search">>, ok)
    \/ \E p \in 1..Len(patterns) :
          ApplyStart(p, [k \in {"op"} |-> "search"], PatternStubOutcomes)
    \/ \E i \in 1..Len(calls) : ApplyResume(i)

SpecConcurrentApply == Init /\ [][ConcurrentApplyNext]_vars

----------------------------------------------------------------------------
\* The orchestrator's operations together, as a multi-agent workflow calls
\* them, with the strategy, match and execution functions as the code has
\* them.
WorkflowNext ==
    \/ \E ok \in BOOLEAN :
          CreateSession("specialist", NoParent, [k \in {"a"} |-> 1], 1, ok)
    \/ \E id \in SessionIds : GetSession(id, FALSE)
    \/ \E ok \in BOOLEAN : RegisterAgent("a1", "specialist", <<>>, ok)
    \/ \E ok \in BOOLEAN :
          LearnPattern("workflow", [k \in {"op"} |-> "search"],
                       [k \in {"strategy"} |-> "cache"], <<"search">>, ok)
    \/ \E p \in 1..Len(patterns) :
          ApplyPattern(p, [k \in {"op"} |-> "search"], PatternStubOutcomes)
    \/ ResolveConflict("memory_conflict", <<"x1">>, "low", TRUE, StubOutcomes)

SpecWorkflow == Init /\ [][WorkflowNext]_vars

----------------------------------------------------------------------------
\* The HTTP client.

\* config.retryAttempts
RetryAttempts == 3

\* What one HTTP attempt can end in: a 2xx response, or a rejection of
\* makeHttpRequest with its code and status code (0: none).
Ok == [ok |-> TRUE, code |-> "", statusCode |-> 200]
NetworkError == [ok |-> FALSE, code |-> "NETWORK_ERROR", statusCode |-> 0]
TimeoutError == [ok |-> FALSE, code |-> "TIMEOUT_ERROR", statusCode |-> 0]
ServerError == [ok |-> FALSE, code |-> "HTTP_ERROR", statusCode |-> 500]
ClientError == [ok |-> FALSE, code |-> "HTTP_ERROR", statusCode |-> 404]
Responses == {Ok, NetworkError, TimeoutError, ServerError, ClientError}

\* error.statusCode && error.statusCode >= 400 && error.statusCode < 500
IsClientError(error) ==
    error.statusCode # 0 /\ error.statusCode >= 400 /\ error.statusCode < 500

\* Mutant of makeRequestFrom: a 4xx response is retried like any failure.
RECURSIVE makeRequestRetryingClientErrors(_, _)
makeRequestRetryingClientErrors(responses, attempt) ==
    IF attempt > RetryAttempts
    THEN [attempts |-> attempt - 1, threw |-> TRUE, code |-> "RETRY_EXHAUSTED",
          statusCode |-> 0]
    ELSE IF responses[attempt].ok
    THEN [attempts |-> attempt, threw |-> FALSE, code |-> "", statusCode |-> 200]
    ELSE makeRequestRetryingClientErrors(responses, attempt + 1)

\* The for-loop of makeRequest from iteration `attempt`, where
\* responses[k] is how the k-th HTTP attempt ends: the attempts made and
\* what the call returns or throws.
RECURSIVE makeRequestFrom(_, _)
makeRequestFrom(responses, attempt) ==
    IF attempt > RetryAttempts
    THEN [attempts |-> attempt - 1, threw |-> TRUE, code |-> "RETRY_EXHAUSTED",
          statusCode |-> 0]
    ELSE IF responses[attempt].ok
    THEN [attempts |-> attempt, threw |-> FALSE, code |-> "", statusCode |-> 200]
    ELSE IF IsClientError(responses[attempt])
    THEN [attempts |-> attempt, threw |-> TRUE, code |-> responses[attempt].code,
          statusCode |-> responses[attempt].statusCode]
    ELSE makeRequestFrom(responses, attempt + 1)

makeRequest(responses) == makeRequestFrom(responses, 1)

\* healthCheck(): the status it returns; the catch block turns every
\* failure of the request into status error.
healthCheck(responses, uptime) ==
    IF ~makeRequest(responses).threw
    THEN [threw |-> FALSE, status |-> "healthy", uptime |-> uptime]
    ELSE [threw |-> FALSE, status |-> "error", uptime |-> 0]

\* validateConnection(): true unless healthCheck throws.
validateConnection(responses, uptime) == ~healthCheck(responses, uptime).threw

MakeRequest(responses) ==
    /\ lastCall' = [op |-> "makeRequest", responses |-> responses,
                    result |-> makeRequest(responses)]
    /\ UNCHANGED <<clock, auditLog, calls, sessionVars, agentVars, conflictVars,
                   patternVars>>

HealthCheck(responses, uptime) ==
    /\ lastCall' = [op |-> "healthCheck", responses |-> responses,
                    result |-> healthCheck(responses, uptime)]
    /\ UNCHANGED <<clock, auditLog, calls, sessionVars, agentVars, conflictVars,
                   patternVars>>

ValidateConnection(responses, uptime) ==
    /\ lastCall' = [op |-> "validateConnection", responses |-> responses,
                    result |-> validateConnection(responses, uptime)]
    /\ UNCHANGED <<clock, auditLog, calls, sessionVars, agentVars, conflictVars,
                   patternVars>>

UptimeInputs == {0, 5}

ClientNext ==
    \/ \E rs \in [1..RetryAttempts -> Responses] : MakeRequest(rs)
    \/ \E rs \in [1..RetryAttempts -> Responses], u \in UptimeInputs :
          HealthCheck(rs, u)
    \/ \E rs \in [1..RetryAttempts -> Responses], u \in UptimeInputs :
          ValidateConnection(rs, u)

SpecClient == Init /\ [][ClientNext]_vars

----------------------------------------------------------------------------
\* Tool handlers: what executeTool does with the request's arguments before
\* it calls the orchestrator.

\* A role no enum of the schemas holds.
RoleRequests == {"specialist", "intruder"}

\* validateInput(SessionCreateSchema, args): agentRole must be in the enum.
\* A failed parse throws VALIDATION_ERROR, which executeTool turns into an
\* error result.
handleSessionCreate(agentRole, parentSessionId, initialState, ttl, auditOk) ==
    IF agentRole \in Roles
    THEN CreateSession(agentRole, parentSessionId, initialState, ttl, auditOk)
    ELSE /\ lastCall' = [op |-> "session_create", isError |-> TRUE,
                         code |-> "VALIDATION_ERROR"]
         /\ UNCHANGED <<clock, auditLog, sessionVars, calls, agentVars, conflictVars,
                        patternVars>>

\* handleAgentRegister casts args and calls registerAgent with them.
handleAgentRegister(agentId, role, specialization, auditOk) ==
    RegisterAgent(agentId, role, specialization, auditOk)

ToolsNext ==
    \/ \E r \in RoleRequests, p \in SessionIds \cup {NoParent}, ok \in BOOLEAN :
          handleSessionCreate(r, p, [k \in {"a"} |-> 1], 1, ok)
    \/ \E a \in AgentIdInputs, r \in RoleRequests, sp \in SpecializationInputs,
          ok \in BOOLEAN : handleAgentRegister(a, r, sp, ok)

SpecTools == Init /\ [][ToolsNext]_vars

----------------------------------------------------------------------------
\* Session specifications.

SessionStep(stateInputs, ttlInputs, auditOutcomes) ==
    \/ Tick
    \/ \E r \in SessionRoleInputs, p \in SessionIds \cup {NoParent, UnknownId},
          st \in stateInputs, t \in ttlInputs, ok \in auditOutcomes :
          CreateSession(r, p, st, t, ok)
    \/ \E id \in SessionIds \cup {UnknownId}, h \in BOOLEAN : GetSession(id, h)
    \/ CleanupStart
    \/ \E ok \in auditOutcomes : CleanupResume(ok)

SessionNext == SessionStep({[k \in {"a"} |-> 1]}, {1}, BOOLEAN)

SpecSession == Init /\ [][SessionNext]_vars

\* The sessions under fair scheduling of the sweep: the interval timer
\* keeps entering cleanupExpiredSessions, and the storeMemory call a sweep
\* awaits settles (it resolves, or rejects after its timeouts and retries).
SweepFairness ==
    /\ WF_vars(CleanupStart)
    /\ WF_vars(\E ok \in BOOLEAN : CleanupResume(ok))

SpecSweep == Init /\ [][SessionNext]_vars /\ SweepFairness

MergeNext == SessionStep(StateInputs, TtlInputs, {TRUE})

SpecMerge == Init /\ [][MergeNext]_vars

----------------------------------------------------------------------------
\* Properties.

Range(seq) == {seq[i] : i \in DOMAIN seq}

\* C1: every stored session whose parentSessionId names a stored session P
\* has hierarchyLevel = P.hierarchyLevel + 1 and is in P.childSessions, and
\* every session created without a parent has hierarchyLevel 0.
C1_HierarchyInvariant ==
    \A s \in SessionIds :
        LET p == sessions[s].parentSessionId
        IN  /\ p = NoParent => sessions[s].hierarchyLevel = 0
            /\ p \in SessionIds =>
                  /\ sessions[s].hierarchyLevel = sessions[p].hierarchyLevel + 1
                  /\ s \in Range(sessions[p].childSessions)

\* A child exists under a parent that has since been found expired.
C1_Witness ==
    \E s \in SessionIds :
        /\ sessions[s].parentSessionId \in SessionIds
        /\ ~sessions[sessions[s].parentSessionId].isActive
        /\ lastCall.op \in {"getSessionContext", "cleanupExpiredSessions"}

\* C2: a session whose isActive flag is false keeps it false in every step
\* (createSession, getSessionContext, the sweep, the clock advancing).
C2_ActiveNeverRestored ==
    [][\A s \in SessionIds : ~sessions[s].isActive => ~sessions'[s].isActive]_vars

\* A session is created under a parent that is already inactive.
C2_Witness ==
    /\ lastCall.op = "createSession"
    /\ lastCall.parentSessionId \in SessionIds
    /\ ~sessions[lastCall.parentSessionId].isActive

\* The states of the sessions on the parent chain of sessionId, as store S
\* holds them, merged root to leaf.
RECURSIVE ChainMerge(_, _)
ChainMerge(S, sessionId) ==
    LET parentId == S[sessionId].parentSessionId
    IN  IF parentId \in 1..Len(S)
        THEN SpreadMerge(ChainMerge(S, parentId), S[sessionId].state)
        ELSE S[sessionId].state

\* C3: getSessionContext(id, includeHierarchy = true) on a stored session
\* returns a state equal to the states of all sessions on its parent chain
\* merged root to leaf, a descendant's value overriding an ancestor's.
C3_MergedState ==
    [][(/\ lastCall'.op = "getSessionContext"
        /\ lastCall'.includeHierarchy
        /\ lastCall'.result # <<>>)
       => lastCall'.result[1].state = ChainMerge(sessions, lastCall'.sessionId)]_vars

\* C4: a resolveConflict call ends with status "escalated" if and only if
\* tier 1 and then tier 2 were gone through, in that order, and neither
\* resolved the conflict; the conflict is then at tier 3, and tier 3 is
\* entered from tier 2 only.
C4_EscalatedIffBothTiersFailed ==
    lastCall.op = "resolveConflict" =>
        LET c == lastCall.result
            t == lastCall.tiers
        IN  /\ c.status = "escalated" <=>
                  /\ Len(t) >= 2
                  /\ t[1] = [tier |-> 1, resolved |-> FALSE]
                  /\ t[2] = [tier |-> 2, resolved |-> FALSE]
            /\ c.status = "escalated" => c.resolutionTier = 3
            /\ \A i \in DOMAIN t :
                  t[i].tier = 3 => i > 1 /\ t[i - 1].tier = 2
            /\ conflicts[lastCall.conflictId] = c

\* A call has ended escalated, with a mediator registered and voting run.
C4_Witness ==
    /\ lastCall.op = "resolveConflict"
    /\ lastCall.result.status = "escalated"
    /\ lastCall.tier2Attempted = <<"contextual_analysis", "agent_voting">>

\* C5: for a registered agent that outcomes have been reported for,
\* tasksCompleted is the number of reports and successRate is the number of
\* success reports over the number of reports.
C5_SuccessRateIsFraction ==
    \A a \in DOMAIN agents :
        reported[a].total > 0 =>
            /\ agents[a].performance.tasksCompleted = reported[a].total
            /\ agents[a].performance.successRate =
                  Fraction(reported[a].successes, reported[a].total)

\* C6: applyPattern with an id that names no stored pattern returns false
\* and leaves the pattern store (so every pattern's usageCount, successRate
\* and lastApplied) and the learned and applied counters as they were.
C6_UnknownPatternChangesNothing ==
    [][(lastCall'.op = "applyPattern" /\ ~lastCall'.known)
       => /\ lastCall'.result = FALSE
          /\ patterns' = patterns
          /\ patternsLearned' = patternsLearned
          /\ patternsApplied' = patternsApplied]_vars

\* An unknown id has been applied to a store that holds a used pattern.
C6_Witness ==
    /\ lastCall.op = "applyPattern"
    /\ ~lastCall.known
    /\ patternsApplied > 0
    /\ \E p \in 1..Len(patterns) : patterns[p].usageCount > 0

Tier1Strategy(conflictType) ==
    CASE conflictType = "memory_conflict" -> "memory_deduplication"
      [] conflictType = "session_conflict" -> "session_hierarchy_precedence"
      [] conflictType = "agent_conflict" -> "agent_precedence"
      [] conflictType = "pattern_conflict" -> "pattern_priority"

\* C7: when the tier-1 strategy for the conflict's kind reports success,
\* resolveConflict returns the conflict resolved at tier 1, with resolvedAt
\* set and the strategy's identifier recorded, and neither tier 2 nor tier 3
\* is entered.
C7_Tier1Success ==
    (lastCall.op = "resolveConflict" /\ lastCall.tiers[1].resolved) =>
        LET c == lastCall.result
        IN  /\ c.status = "resolved"
            /\ c.resolutionTier = 1
            /\ c.resolvedAt # NoTime
            /\ c.resolutionStrategy = Tier1Strategy(c.type)
            /\ lastCall.tiers = <<[tier |-> 1, resolved |-> TRUE]>>
            /\ lastCall.tier2Attempted = <<>>
            /\ ~lastCall.threw
            /\ lastCall.conflictId \notin Range(activeConflicts)
            /\ conflicts[lastCall.conflictId] = c

\* A session conflict between two sessions has been resolved by tier 1.
C7_Witness ==
    /\ lastCall.op = "resolveConflict"
    /\ lastCall.tiers[1].resolved
    /\ lastCall.result.type = "session_conflict"
    /\ Len(lastCall.result.involvedSessions) = 2

\* C8: a session's isActive flag is false exactly when getSessionContext or
\* the sweep has compared its age with its TTL and found now - createdAt >
\* ttl * 1000: each step leaves the flag as it was (true for a new session)
\* unless the step is such an observation, which makes it false.
C8_InactiveIffObservedExpired ==
    [][\A s \in 1..Len(sessions') :
         LET observed ==
                 /\ lastCall'.op \in {"getSessionContext", "cleanupExpiredSessions"}
                 /\ s \in lastCall'.checked
                 /\ lastCall'.now - sessions'[s].createdAt > sessions'[s].ttl * 1000
             before == IF s \in SessionIds THEN sessions[s].isActive ELSE TRUE
         IN  sessions'[s].isActive = (before /\ ~observed)]_vars

\* getSessionContext has returned a session past its TTL as inactive while
\* no sweep has handled that session.
C8_Witness ==
    /\ lastCall.op = "getSessionContext"
    /\ lastCall.result # <<>>
    /\ ~lastCall.result[1].isActive
    /\ lastCall.sessionId \in sessionHierarchy
    /\ sweep.pc = "idle"

\* C9: createSession with a parentSessionId that names no stored session,
\* or a session that is not active, adds no session, changes no child list
\* and emits no audit record.
C9_InvalidParentRejected ==
    [][(/\ lastCall'.op = "createSession"
        /\ lastCall'.parentSessionId # NoParent
        /\ \/ lastCall'.parentSessionId \notin SessionIds
           \/ ~sessions[lastCall'.parentSessionId].isActive)
       => sessions' = sessions /\ auditLog' = auditLog]_vars

\* C10: registerAgent with an id that is already registered leaves the
\* registered agent's role, specialization and performance as they were.
C10_DuplicateAgentRejected ==
    [][(lastCall'.op = "registerAgent" /\ lastCall'.wasRegistered)
       => agents' = agents]_vars

\* C11: getSessionContext leaves the stored state map of every session as
\* it was, also when includeHierarchy is true: the merge is not written back.
C11_MergeNotPersisted ==
    [][lastCall'.op = "getSessionContext"
       => \A s \in SessionIds : sessions'[s].state = sessions[s].state]_vars

NoDuplicates(seq) ==
    \A i, j \in DOMAIN seq : i # j => seq[i] # seq[j]

\* C12: in every reachable state the child list of each session holds
\* exactly the ids of the sessions created with parentSessionId equal to its
\* id, each of them once.
C12_ChildListExact ==
    \A p \in SessionIds :
        /\ Range(sessions[p].childSessions) =
              {s \in SessionIds : sessions[s].parentSessionId = p}
        /\ NoDuplicates(sessions[p].childSessions)

\* A session has just been created under a stored parent.
C12_Witness ==
    /\ lastCall.op = "createSession"
    /\ lastCall.parentSessionId \in SessionIds
    /\ sessions[lastCall.parentSessionId].childSessions = <<lastCall.sessionId>>
    /\ sessions[lastCall.sessionId].childSessions = <<>>

\* C13: no step removes a session from the store, and getSessionContext on
\* the id of a stored session returns that session, never null, also after
\* the session has expired and been swept.
C13_NoSessionRemoved ==
    [][/\ Len(sessions') >= Len(sessions)
       /\ \A s \in SessionIds : sessions'[s].createdAt = sessions[s].createdAt
       /\ (lastCall'.op = "getSessionContext" /\ lastCall'.sessionId \in SessionIds)
             => /\ lastCall'.result # <<>>
                /\ lastCall'.result[1] = sessions'[lastCall'.sessionId]]_vars

\* getSessionContext has returned a session that a completed sweep had
\* already marked and taken out of the hierarchy index.
C13_Witness ==
    /\ lastCall.op = "getSessionContext"
    /\ lastCall.sessionId \in SessionIds \ sessionHierarchy
    /\ lastCall.result # <<>>
    /\ sweep.pc = "idle"

\* C14: a sweep that returns gives the number of sessions whose isActive it
\* changed from true to false; sessions inactive before it are not counted.
\* (The count the code returns is also the number of audit records the call
\* has emitted: it is incremented after each storeMemory that resolves.)
C14_SweepCountsTransitions ==
    [][(/\ lastCall'.op = "cleanupExpiredSessions"
        /\ lastCall'.done
        /\ ~lastCall'.threw)
       => lastCall'.cleanedCount =
              (IF sweep.pc = "audit" THEN sweep.flipped ELSE 0)]_vars

\* C15: within one resolveConflict call the conflict's resolutionTier starts
\* at 1, takes values among 1, 2, 3 only and never decreases.
C15_TierMonotone ==
    lastCall.op = "resolveConflict" =>
        LET st == lastCall.stages
        IN  /\ st[1].resolutionTier = 1
            /\ \A i \in DOMAIN st : st[i].resolutionTier \in {1, 2, 3}
            /\ \A i, j \in DOMAIN st :
                  i <= j => st[i].resolutionTier <= st[j].resolutionTier
            /\ st[Len(st)] = lastCall.result

\* A call has taken the conflict through tiers 1, 2 and 3.
C15_Witness ==
    /\ lastCall.op = "resolveConflict"
    /\ Len(lastCall.stages) = 4
    /\ lastCall.stages[2].resolutionTier = 2
    /\ lastCall.stages[3].resolutionTier = 3

ResolvedIsComplete(c) ==
    c.status = "resolved" => c.resolvedAt # NoTime /\ c.resolutionStrategy # ""

\* C16: in every reachable state, the states at the awaits of a
\* resolveConflict call included, a conflict whose status is "resolved" has
\* resolvedAt set and a non-empty resolutionStrategy.
C16_ResolvedHasTimeAndStrategy ==
    /\ \A c \in DOMAIN conflicts : ResolvedIsComplete(conflicts[c])
    /\ lastCall.op = "resolveConflict" =>
          \A i \in DOMAIN lastCall.stages : ResolvedIsComplete(lastCall.stages[i])

\* The store holds a conflict tier 1 resolved and one mediation resolved.
C16_Witness ==
    /\ \E c \in DOMAIN conflicts :
          conflicts[c].status = "resolved" /\ conflicts[c].resolutionTier = 1
    /\ \E c \in DOMAIN conflicts :
          conflicts[c].status = "resolved" /\ conflicts[c].resolutionTier = 2

\* C17: when tier 1 does not resolve a conflict and no registered agent has
\* role coordinator or orchestrator, tier 2 runs no strategy and the call
\* ends with the conflict escalated at tier 3.
C17_NoMediatorsEscalates ==
    (/\ lastCall.op = "resolveConflict"
     /\ ~lastCall.tiers[1].resolved
     /\ \A a \in DOMAIN agents : agents[a].role \notin {"coordinator", "orchestrator"})
    => /\ lastCall.tier2Attempted = <<>>
       /\ lastCall.result.status = "escalated"
       /\ lastCall.result.resolutionTier = 3

\* A conflict tier 1 did not resolve has been handled while the only
\* registered agent is a specialist.
C17_Witness ==
    /\ lastCall.op = "resolveConflict"
    /\ ~lastCall.tiers[1].resolved
    /\ DOMAIN agents # {}
    /\ \A a \in DOMAIN agents : agents[a].role = "specialist"

\* C18: in tier 2 the contextual analysis is run before the vote, and the
\* vote is held only when the analysis did not resolve the conflict and the
\* conflict has more than one involved agent; when neither resolves, tier 2
\* reports no resolution (and the conflict is escalated).
C18_Tier2Order ==
    (lastCall.op = "resolveConflict" /\ Len(lastCall.tiers) >= 2) =>
        LET c == lastCall.result
            attempted == lastCall.tier2Attempted
            voted == "agent_voting" \in Range(attempted)
        IN  /\ attempted \in {<<>>, <<"contextual_analysis">>,
                              <<"contextual_analysis", "agent_voting">>}
            /\ attempted = <<>> <=> Mediators = {}
            /\ voted <=> /\ Mediators # {}
                         /\ c.resolutionStrategy # "contextual_analysis"
                         /\ Len(c.involvedAgents) > 1
            /\ lastCall.tiers[2].resolved <=>
                  c.resolutionStrategy \in {"contextual_analysis", "agent_voting"}
            /\ c.resolutionStrategy = "agent_voting" => voted
            /\ lastCall.tiers[2].resolved <=> c.status = "resolved"
            /\ ~lastCall.tiers[2].resolved <=> c.status = "escalated"

\* The vote has resolved a conflict the contextual analysis had not.
C18_Witness ==
    /\ lastCall.op = "resolveConflict"
    /\ lastCall.tier2Attempted = <<"contextual_analysis", "agent_voting">>
    /\ lastCall.result.resolutionStrategy = "agent_voting"

EscalationAudits(conflictId) ==
    {i \in DOMAIN auditLog :
        /\ auditLog[i].event = "human_escalation"
        /\ auditLog[i].id = conflictId}

C23_TerminalStatus ==
    [][\A c \in DOMAIN conflicts :
         conflicts[c].status \in {"resolved", "escalated"} =>
             /\ c \in DOMAIN conflicts'
             /\ conflicts'[c] = conflicts[c]]_vars

\* A later call has run, with a mediator registered and strategies that
\* resolve, while the store held an escalated conflict.
C23_Witness ==
    /\ Len(conflicts) = 2
    /\ conflicts[1].status = "escalated"
    /\ conflicts[2].status = "resolved"
    /\ conflicts[2].type = conflicts[1].type
    /\ lastCall.op = "resolveConflict"

\* C24: learn_pattern always succeeds and adds exactly one new pattern with
\* confidence 0.5, usageCount 0, successRate 0 and the given fields, changing
\* no existing pattern.  The code rejects the call when the awaited
\* storeMemory throws (the pattern is stored all the same and
\* patternsLearned is not incremented).
C24_LearnAlwaysSucceeds ==
    [][lastCall'.op = "learnPattern" =>
          /\ ~lastCall'.threw
          /\ Len(patterns') = Len(patterns) + 1
          /\ SubSeq(patterns', 1, Len(patterns)) = patterns
          /\ patterns'[Len(patterns')].confidence = InitialConfidence
          /\ patterns'[Len(patterns')].usageCount = 0
          /\ patterns'[Len(patterns')].successRate = <<0, 1>>
          /\ patterns'[Len(patterns')] = lastCall'.result]_vars

\* C25: apply_pattern on a stored pattern whose match score is below the
\* threshold returns false, does not execute the actions and leaves the
\* pattern store and the applied counter unchanged; it returns true only
\* when the score is at or above the threshold and the execution did not
\* throw.
C25_BelowThresholdNotApplied ==
    [][(lastCall'.op = "applyPattern" /\ lastCall'.known) =>
          /\ lastCall'.score < MatchThreshold =>
                /\ lastCall'.result = FALSE
                /\ ~lastCall'.executed
                /\ patterns' = patterns
                /\ patternsApplied' = patternsApplied
          /\ lastCall'.result = TRUE =>
                /\ lastCall'.score >= MatchThreshold
                /\ lastCall'.executed
                /\ ~lastCall'.caught]_vars

\* A used pattern is applied with a score under the threshold.
C25_Witness ==
    /\ lastCall.op = "applyPattern"
    /\ lastCall.known
    /\ lastCall.score < MatchThreshold
    /\ patterns[lastCall.patternId].usageCount > 0

C28_ConfidenceBounded ==
    [][/\ \A p \in 1..Len(patterns') :
             /\ patterns'[p].confidence >= 0
             /\ patterns'[p].confidence <= 100
       /\ \A p \in 1..Len(patterns) :
             /\ p \in 1..Len(patterns')
             /\ patterns'[p].confidence = patterns[p].confidence]_vars

\* The analysis has run over a store that holds an applied pattern.
C28_Witness ==
    /\ lastCall.op = "analyzeAndLearnPatterns"
    /\ \E p \in 1..Len(patterns) : patterns[p].usageCount > 0

\* C29: an audit-sink failure during create_session or the expiry sweep
\* (likewise register_agent, learn_pattern and escalation) never becomes a
\* failure of the operation: the call returns normally and its state change
\* is in the store.  In the code each storeMemory call is awaited without a
\* try/catch, so its rejection is the rejection of the operation.
C29_AuditFailureSwallowed ==
    /\ lastCall.op = "createSession" =>
          /\ ~lastCall.threw
          /\ lastCall.sessionId \in 1..Len(sessions)
          /\ lastCall.sessionId \in sessionHierarchy
    /\ lastCall.op = "cleanupExpiredSessions" => ~lastCall.threw

\* C30: every state-changing action of the stores emits an audit record;
\* for the pattern store: pattern learning, and a pattern application that
\* changes usage counters.  (A learnPattern call whose audit write throws is
\* left aside.)  In the code applyPattern never calls storeMemory.
C30_EveryChangeAudited ==
    [][(/\ patterns' # patterns
        /\ ~(lastCall'.op = "learnPattern" /\ lastCall'.threw))
          => Len(auditLog') = Len(auditLog) + 1]_vars

\* C31: create_session, register_agent and learn_pattern each emit exactly
\* one audit record per call (none arrives when the sink fails the call),
\* while get_session, apply_pattern and a resolve_conflict that resolves at
\* tier 1 emit none.
C31_AuditRecordsPerCall ==
    [][/\ lastCall'.op \in {"createSession", "registerAgent", "learnPattern"} =>
             /\ Len(auditLog') = Len(auditLog) + (IF lastCall'.threw THEN 0 ELSE 1)
             /\ SubSeq(auditLog', 1, Len(auditLog)) = auditLog
       /\ lastCall'.op \in {"getSessionContext", "applyPattern"} =>
             auditLog' = auditLog
       /\ (/\ lastCall'.op = "resolveConflict"
           /\ lastCall'.result.status = "resolved"
           /\ lastCall'.result.resolutionTier = 1) => auditLog' = auditLog]_vars

\* Every kind of call has been made: the log holds the records of a session
\* and an agent while a pattern was learned and applied and a conflict
\* resolved at tier 1 without one.
C31_Witness ==
    /\ Len(sessions) > 0
    /\ DOMAIN agents # {}
    /\ Len(conflicts) > 0
    /\ patternsApplied > 0
    /\ Len(auditLog) = MaxAudit
    /\ lastCall.op = "getSessionContext"

\* C32: a request that carries an out-of-range field (here a role outside
\* its enum) is rejected with a validation error before any store is
\* mutated and before any audit record is emitted.  session_create does
\* so; agent_register is not validated and registers the agent.
C32_InvalidRequestRejected ==
    [][/\ lastCall'.op = "session_create" =>
             /\ lastCall'.isError
             /\ UNCHANGED <<sessions, sessionHierarchy, auditLog>>
       /\ lastCall'.op = "createSession" =>
             sessions'[lastCall'.sessionId].agentRole \in Roles
       /\ (lastCall'.op = "registerAgent" /\ lastCall'.result.role \notin Roles) =>
             UNCHANGED <<agents, auditLog>>]_vars

\* The suspended calls of applyPattern on pattern p.
ApplyingTo(p) ==
    {i \in 1..Len(calls) : calls[i].op = "applyPattern" /\ calls[i].patternId = p}

RECURSIVE SumUsage(_, _)
SumUsage(P, n) == IF n = 0 THEN 0 ELSE P[n].usageCount + SumUsage(P, n - 1)

\* C34: for every interleaving of concurrent apply_pattern calls on a
\* stored pattern that all reach execution and succeed, no update is lost:
\* usageCount is the number of calls that have returned (all N of them once
\* none is suspended), successRate is that of those successes, and the
\* applied counter has grown by as much.
C34_NoLostApplication ==
    /\ \A p \in 1..Len(patterns) :
          /\ patterns[p].usageCount + Cardinality(ApplyingTo(p))
                = executions[p].attempts
          /\ patterns[p].usageCount = executions[p].succeeded
          /\ patterns[p].successRate =
                (IF patterns[p].usageCount > 0 THEN <<1, 1>> ELSE <<0, 1>>)
    /\ patternsApplied = SumUsage(patterns, Len(patterns))

\* All the overlapping calls have returned, the last of them after the
\* pattern was changed by another call while it was suspended.
C34_Witness ==
    /\ calls = <<>>
    /\ lastCall.op = "applyPattern.return"
    /\ lastCall.result = TRUE
    /\ lastCall.seenUsage < lastCall.usageBefore
    /\ patterns[lastCall.patternId].usageCount = MaxUsage

\* C33: for every interleaving of concurrent create_session calls naming
\* the same parent, with each other, with get_session on the parent and
\* with the sweep, each parent's child list holds exactly the ids of the
\* stored sessions that name it, each once, in every state: none is lost
\* or duplicated and no reader sees a stored child missing from the list.
C33_ConcurrentChildrenExact ==
    /\ \A p \in SessionIds :
          /\ Range(sessions[p].childSessions) =
                {s \in SessionIds : sessions[s].parentSessionId = p}
          /\ Len(sessions[p].childSessions) =
                Cardinality({s \in SessionIds : sessions[s].parentSessionId = p})
    /\ (lastCall.op = "getSessionContext" /\ lastCall.result # <<>>) =>
          Range(lastCall.result[1].childSessions) =
              {s \in SessionIds : sessions[s].parentSessionId = lastCall.sessionId}

\* Two calls naming the first session, which has expired meanwhile, were
\* suspended together and one of them has returned.
C33_Witness ==
    /\ lastCall.op = "createSession.return"
    /\ lastCall.overlapped
    /\ lastCall.parentSessionId = 1
    /\ Len(sessions[1].childSessions) >= 2
    /\ ~sessions[1].isActive

\* C35: validateConnection returns false when the health request fails
\* and true only when it succeeded; healthCheck never throws and reports
\* status error with uptime 0 on failure.  In the code healthCheck catches
\* every failure, so validateConnection returns true whatever happens.
C35_ValidateConnectionReflectsHealth ==
    /\ lastCall.op = "healthCheck" =>
          /\ ~lastCall.result.threw
          /\ makeRequest(lastCall.responses).threw =>
                (lastCall.result.status = "error" /\ lastCall.result.uptime = 0)
    /\ lastCall.op = "validateConnection" =>
          (lastCall.result = TRUE <=> ~makeRequest(lastCall.responses).threw)

\* The attempts before the k-th all failed in a way that is retried.
Retried(responses, k) ==
    \A j \in 1..(k - 1) : ~responses[j].ok /\ ~IsClientError(responses[j])

\* C36: a client request makes at most retryAttempts HTTP attempts: it
\* stops at the first success, retries after a network, timeout or 5xx
\* failure while attempts remain, never retries after a 4xx response (whose
\* error is thrown) and throws RETRY_EXHAUSTED once retryAttempts attempts
\* have all failed.
C36_RetryPolicy ==
    lastCall.op = "makeRequest" =>
        LET rs == lastCall.responses
            r == lastCall.result
            k == r.attempts
        IN  /\ k \in 1..RetryAttempts
            /\ Retried(rs, k)
            /\ ~r.threw <=> rs[k].ok
            /\ IsClientError(rs[k]) =>
                  (r.threw /\ r.code = rs[k].code /\ r.statusCode = rs[k].statusCode)
            /\ (~rs[k].ok /\ ~IsClientError(rs[k])) =>
                  (k = RetryAttempts /\ r.threw /\ r.code = "RETRY_EXHAUSTED")

\* A request was retried after a server error and a timeout and then
\* stopped at a 4xx response.
C36_Witness ==
    /\ lastCall.op = "makeRequest"
    /\ lastCall.responses = <<ServerError, TimeoutError, ClientError>>
    /\ lastCall.result.attempts = RetryAttempts
    /\ lastCall.result.code = "HTTP_ERROR"

\* C37: for every conflict kind the conflict returned and stored by
\* resolve_conflict records all the involved ids of the request, and the
\* escalation audit record lists them.  In the code a pattern_conflict
\* keeps none of them.
C37_InvolvedIdsRecorded ==
    lastCall.op = "resolveConflict" =>
        /\ involvedIn(lastCall.result) = lastCall.involvedItems
        /\ involvedIn(conflicts[lastCall.conflictId]) = lastCall.involvedItems
        /\ \A i \in EscalationAudits(lastCall.conflictId) :
              auditLog[i].items = lastCall.involvedItems

\* C38: in every reachable state the coordination session hierarchy holds
\* only sessions whose active flag is true.  In the code getSessionContext
\* marks an expired session inactive and leaves it in the hierarchy.
C38_HierarchyHoldsActiveOnly ==
    \A s \in sessionHierarchy : s \in SessionIds /\ sessions[s].isActive

\* C39: after any sequence of learn_pattern and apply_pattern calls,
\* including calls in which the audit sink fails, patternsLearned equals
\* the number of stored patterns and patternsApplied the sum of usageCount
\* over them.  In the code a learnPattern whose audit write throws stores
\* the pattern without counting it.
C39_PatternCountersExact ==
    /\ patternsLearned = Len(patterns)
    /\ patternsApplied = SumUsage(patterns, Len(patterns))

\* C40: under fair scheduling of the periodic sweep every session whose
\* age exceeds its TTL is eventually marked inactive, whether or not a
\* caller reads it, also when sessions are created or the audit sink fails
\* while a sweep is in progress.  In the code a sweep ends at the first
\* audit write that throws, and every sweep starts again from the first
\* session of the map, expired ones included.
C40_ExpiredEventuallyInactive ==
    \A s \in 1..MaxSessions :
        (s \in SessionIds /\ Expired(sessions[s], clock))
            ~> (s \in SessionIds /\ ~sessions[s].isActive)

====
